---- MODULE Spec2Model ----
(***************************************************************************)
(* Model of src/app.py, the WHALE cross-tabulation tool (a Streamlit app). *)
(*                                                                         *)
(* A Streamlit script is re-run from the top on every user interaction.    *)
(* The state that survives between runs is the st.cache_data store of      *)
(* load_data and of get_exam_counts, and the widget values.  Each action   *)
(* below is one whole run of main(): the first run (cache miss), a re-run  *)
(* caused by a widget change, and a re-run caused by the button.           *)
(*                                                                         *)
(* Tables (DataFrames) are sequences of rows, a row is a record of the     *)
(* columns read with usecols.  Cells are never missing (no NaN).           *)
(* An optional value (Python None or a value) is <<>> or <<v>>.            *)
(* Labels are the ASCII renderings of the source's Chinese labels.         *)
(***************************************************************************)
EXTENDS Integers, Sequences, FiniteSets

VARIABLES
    files,              \* the five CSV resources load_data reads
    cache,              \* st.cache_data store of load_data: <<>>, or <<r>> with
                        \*   r.ret the seven returned values and r.errors the
                        \*   st.error calls that the cache replays on a hit
    exam_counts,        \* st.cache_data store of get_exam_counts: <<>> or <<df>>
    exam_threshold,     \* value of the selectbox
    selected_datasets,  \* value of the multiselect, in selection order
    stats,              \* the category summary drawn by this run: <<>> or <<s>>
    report              \* the messages written by this run

vars == <<files, cache, exam_counts, exam_threshold, selected_datasets, stats, report>>

-----------------------------------------------------------------------------
(* Bounds of the model *)

MaxSelected == 2    \* longest multiselect value explored
MaxRows == 3        \* longest enumerated table

(* Program constants *)

YearCut == 2019
Threshold3 == 3
Threshold10 == 10

None == <<>>
Some(v) == <<v>>
Get(o) == o[1]

-----------------------------------------------------------------------------
(* pandas / Python helpers, as the code uses them *)

\* df[col]: the column of a table, as a sequence of cell values
Column(df, col) == [i \in 1..Len(df) |-> df[i][col]]

\* Series.unique(): the distinct values in order of first appearance
unique(s) ==
    LET first(i) == \A j \in 1..(i - 1) : s[j] # s[i]
        firsts == SelectSeq([i \in 1..Len(s) |-> i], first)
    IN  [k \in 1..Len(firsts) |-> s[firsts[k]]]

\* set(iterable)
set(s) == {s[i] : i \in 1..Len(s)}

\* Series.nunique()
nunique(s) == Len(unique(s))

\* Variant of FilterGE with a strict comparison (df[col] > n).
FilterGT(df, col, n) ==
    LET keep(row) == row[col] > n
    IN  SelectSeq(df, keep)

\* df[df[col] >= n]: boolean-mask row filter
FilterGE(df, col, n) ==
    LET keep(row) == row[col] >= n
    IN  SelectSeq(df, keep)

RECURSIVE SortedSeq(_)
\* the elements of a set of integers in ascending order (groupby sorts group keys)
SortedSeq(S) ==
    IF S = {} THEN <<>>
    ELSE LET m == CHOOSE x \in S : \A y \in S : x <= y
         IN  <<m>> \o SortedSeq(S \ {m})

-----------------------------------------------------------------------------
(* load_data *)

FileNames == <<"basic", "clinical_data", "xue_sample", "baimo_sample", "wgs">>

NoFailure == 0

\* The seven values load_data returns when every read succeeds (lines 16-29).
Loaded(f) ==
    [basic |-> Some(f.basic),
     xue_sample |-> Some(f.xue_sample),
     baimo_sample |-> Some(f.baimo_sample),
     wgs |-> Some(f.wgs),
     clinical_data |-> Some(f.clinical_data),
     xue_sample_2019 |-> Some(FilterGE(f.xue_sample, "year", YearCut)),
     baimo_sample_2019 |-> Some(FilterGE(f.baimo_sample, "year", YearCut))]

\* The seven None values of the except branch (line 32).
AllNone ==
    [basic |-> None, xue_sample |-> None, baimo_sample |-> None, wgs |-> None,
     clinical_data |-> None, xue_sample_2019 |-> None, baimo_sample_2019 |-> None]

\* Variant of load_data that returns what was read before the failing read.
load_data_partial(f, failing) ==
    IF failing = NoFailure
    THEN [ret |-> Loaded(f), errors |-> 0]
    ELSE LET read(i) == i < failing
             opt(i, v) == IF read(i) THEN v ELSE None
             full == Loaded(f)
         IN  [ret |-> [basic |-> opt(1, full.basic),
                       clinical_data |-> opt(2, full.clinical_data),
                       xue_sample |-> opt(3, full.xue_sample),
                       baimo_sample |-> opt(4, full.baimo_sample),
                       wgs |-> opt(5, full.wgs),
                       xue_sample_2019 |-> None,
                       baimo_sample_2019 |-> None],
              errors |-> 1]

\* load_data when the failing-th read (in the order of FileNames) raises;
\* failing = NoFailure when none does.  Any exception inside the try block
\* reaches the except branch, which reports one error and returns all None.
load_data(f, failing) ==
    IF failing = NoFailure
    THEN [ret |-> Loaded(f), errors |-> 0]
    ELSE [ret |-> AllNone, errors |-> 1]

-----------------------------------------------------------------------------
(* get_exam_counts *)

\* Variant of groupby_nunique that counts the rows of each group (.count()).
groupby_count(basic) ==
    LET keys == SortedSeq(set(Column(basic, "id_patientarchive")))
        group(k) == LET in(row) == row.id_patientarchive = k
                    IN  SelectSeq(basic, in)
    IN  [i \in 1..Len(keys) |->
            [id_patientarchive |-> keys[i],
             exam_count |-> Len(Column(group(keys[i]), "id_patient"))]]

\* basic.groupby('id_patientarchive')['id_patient'].nunique()
\*      .reset_index(name='exam_count')
groupby_nunique(basic) ==
    LET keys == SortedSeq(set(Column(basic, "id_patientarchive")))
        group(k) == LET in(row) == row.id_patientarchive = k
                    IN  SelectSeq(basic, in)
    IN  [i \in 1..Len(keys) |->
            [id_patientarchive |-> keys[i],
             exam_count |-> nunique(Column(group(keys[i]), "id_patient"))]]

get_exam_counts(basic) ==
    IF basic = None THEN None ELSE Some(groupby_nunique(Get(basic)))

-----------------------------------------------------------------------------
(* main: the category summary (lines 66-77) *)

TableNames == {"basic", "xue_sample", "baimo_sample", "wgs", "clinical_data",
               "xue_sample_2019", "baimo_sample_2019"}

\* subscripting None raises TypeError
AnyNone(ret) == \E n \in TableNames : ret[n] = None

ids(df) == Column(df, "id_patientarchive")

\* Variant of category_stats that counts rows (len) for the sample and
\* membership tables instead of distinct patients.
category_stats_rows(ret, ec) ==
    << <<"exam_total", nunique(ids(Get(ret.basic)))>>,
       <<"exam_ge3", Len(FilterGE(ec, "exam_count", Threshold3))>>,
       <<"exam_ge10", Len(FilterGE(ec, "exam_count", Threshold10))>>,
       <<"plasma", Len(ids(Get(ret.xue_sample)))>>,
       <<"plasma_2019", Len(ids(Get(ret.xue_sample_2019)))>>,
       <<"buffy_coat", Len(ids(Get(ret.baimo_sample)))>>,
       <<"buffy_coat_2019", Len(ids(Get(ret.baimo_sample_2019)))>>,
       <<"wgs", Len(ids(Get(ret.wgs)))>>,
       <<"clinical", Len(ids(Get(ret.clinical_data)))>> >>

\* the dict `stats`, as the sequence of its (key, value) items in insertion order
category_stats(ret, ec) ==
    << <<"exam_total", nunique(ids(Get(ret.basic)))>>,
       <<"exam_ge3", Len(FilterGE(ec, "exam_count", Threshold3))>>,
       <<"exam_ge10", Len(FilterGE(ec, "exam_count", Threshold10))>>,
       <<"plasma", nunique(ids(Get(ret.xue_sample)))>>,
       <<"plasma_2019", nunique(ids(Get(ret.xue_sample_2019)))>>,
       <<"buffy_coat", nunique(ids(Get(ret.baimo_sample)))>>,
       <<"buffy_coat_2019", nunique(ids(Get(ret.baimo_sample_2019)))>>,
       <<"wgs", nunique(ids(Get(ret.wgs)))>>,
       <<"clinical", nunique(ids(Get(ret.clinical_data)))>> >>

-----------------------------------------------------------------------------
(* main: the query behind the button (lines 127-154) *)

\* options of the selectbox (line 115)
Thresholds == {"ALL", "GE3", "GE10"}

\* options of the multiselect (line 122)
Options == {"plasma", "plasma_2019", "buffy_coat", "buffy_coat_2019", "wgs", "clinical"}

\* Variant of base_ids whose thresholds are strict (exam_count > 3, > 10).
base_ids_strict(thr, basic, ec) ==
    IF thr = "ALL" THEN set(unique(ids(basic)))
    ELSE IF thr = "GE3" THEN set(ids(FilterGT(ec, "exam_count", Threshold3)))
    ELSE set(ids(FilterGT(ec, "exam_count", Threshold10)))

\* lines 131-136
base_ids(thr, basic, ec) ==
    IF thr = "ALL" THEN set(unique(ids(basic)))
    ELSE IF thr = "GE3" THEN set(ids(FilterGE(ec, "exam_count", Threshold3)))
    ELSE set(ids(FilterGE(ec, "exam_count", Threshold10)))

\* Variant of data_map whose "wgs" entry is the plasma table.
data_map_wrong(ret) ==
    [n \in Options |->
        CASE n = "plasma" -> Get(ret.xue_sample)
          [] n = "plasma_2019" -> Get(ret.xue_sample_2019)
          [] n = "buffy_coat" -> Get(ret.baimo_sample)
          [] n = "buffy_coat_2019" -> Get(ret.baimo_sample_2019)
          [] n = "wgs" -> Get(ret.xue_sample)
          [] n = "clinical" -> Get(ret.clinical_data)]

\* lines 138-145
data_map(ret) ==
    [n \in Options |->
        CASE n = "plasma" -> Get(ret.xue_sample)
          [] n = "plasma_2019" -> Get(ret.xue_sample_2019)
          [] n = "buffy_coat" -> Get(ret.baimo_sample)
          [] n = "buffy_coat_2019" -> Get(ret.baimo_sample_2019)
          [] n = "wgs" -> Get(ret.wgs)
          [] n = "clinical" -> Get(ret.clinical_data)]

RECURSIVE intersect_skipping(_, _, _)
\* Variant of intersect_loop that skips a name missing from data_map (.get).
intersect_skipping(result_ids, sel, dm) ==
    IF sel = <<>> THEN Some(result_ids)
    ELSE IF Head(sel) \notin DOMAIN dm
         THEN intersect_skipping(result_ids, Tail(sel), dm)
         ELSE intersect_skipping(result_ids \cap set(unique(ids(dm[Head(sel)]))),
                                 Tail(sel), dm)

\* Variant of intersect_loop that leaves the loop after the first dataset.
intersect_first_only(result_ids, sel, dm) ==
    IF sel = <<>> THEN Some(result_ids)
    ELSE IF Head(sel) \notin DOMAIN dm THEN None
         ELSE Some(result_ids \cap set(unique(ids(dm[Head(sel)]))))

RECURSIVE intersect_loop(_, _, _)
\* lines 147-150: the for loop; None when data_map[dataset_name] raises KeyError
intersect_loop(result_ids, sel, dm) ==
    IF sel = <<>> THEN Some(result_ids)
    ELSE IF Head(sel) \notin DOMAIN dm THEN None
         ELSE intersect_loop(result_ids \cap set(unique(ids(dm[Head(sel)]))),
                             Tail(sel), dm)

\* the messages of one run
Blank == [errors |-> 0, warning |-> FALSE, success |-> None, info |-> None,
          exception |-> FALSE]

\* line 152: the threshold label, then the joined selection or the
\* "no additional dataset" marker
condition_str(thr, sel) == <<thr>> \o (IF sel = <<>> THEN <<"NO_EXTRA_DATASET">> ELSE sel)

\* Variant of calculate without the usage guard.
calculate_unguarded(ret, ec, thr, sel) ==
    LET result == intersect_loop(base_ids(thr, Get(ret.basic), ec), sel, data_map(ret))
    IN  IF result = None
        THEN [Blank EXCEPT !.exception = TRUE]
        ELSE [Blank EXCEPT !.success = Some(condition_str(thr, sel)),
                           !.info = Some(Cardinality(Get(result)))]

\* lines 128-154: the body of `if st.button(...)`
calculate(ret, ec, thr, sel) ==
    IF sel = <<>> /\ thr = "ALL"
    THEN [Blank EXCEPT !.warning = TRUE]
    ELSE LET result == intersect_loop(base_ids(thr, Get(ret.basic), ec), sel, data_map(ret))
         IN  IF result = None
             THEN [Blank EXCEPT !.exception = TRUE]
             ELSE [Blank EXCEPT !.success = Some(condition_str(thr, sel)),
                                !.info = Some(Cardinality(Get(result)))]

-----------------------------------------------------------------------------
(* main: one run of the script (lines 42-154) *)

\* ld is what load_data returned (with the error it displayed), ec_cache the
\* cached get_exam_counts result, clicked the value of st.button.
main(ld, ec_cache, clicked, thr, sel) ==
    IF ld.ret.basic = None
    THEN [exam_counts |-> ec_cache, stats |-> None,
          report |-> [Blank EXCEPT !.errors = ld.errors]]
    ELSE LET ec == IF ec_cache = None THEN get_exam_counts(ld.ret.basic) ELSE ec_cache
         IN  IF ec = None
             THEN [exam_counts |-> ec, stats |-> None,
                   report |-> [Blank EXCEPT !.errors = ld.errors]]
             ELSE IF AnyNone(ld.ret)
             THEN [exam_counts |-> ec, stats |-> None,
                   report |-> [Blank EXCEPT !.errors = ld.errors, !.exception = TRUE]]
             ELSE [exam_counts |-> ec,
                   stats |-> Some(category_stats(ld.ret, Get(ec))),
                   report |-> IF clicked
                              THEN [calculate(ld.ret, Get(ec), thr, sel)
                                        EXCEPT !.errors = ld.errors]
                              ELSE [Blank EXCEPT !.errors = ld.errors]]

\* the widgets are drawn only by a run that got past the summary
WidgetsShown == stats # None

Render(run) ==
    /\ exam_counts' = run.exam_counts
    /\ stats' = run.stats
    /\ report' = run.report

\* The first run: load_data misses the cache, reads the files and is cached.
FirstRun(failing) ==
    /\ cache = None
    /\ LET ld == load_data(files, failing)
       IN  /\ cache' = Some(ld)
           /\ Render(main(ld, exam_counts, FALSE, exam_threshold, selected_datasets))
    /\ UNCHANGED <<files, exam_threshold, selected_datasets>>

\* A re-run without a widget change: load_data hits the cache.
Rerun ==
    /\ cache # None
    /\ Render(main(Get(cache), exam_counts, FALSE, exam_threshold, selected_datasets))
    /\ UNCHANGED <<files, cache, exam_threshold, selected_datasets>>

\* The user picks another option of the selectbox.
ChangeThreshold(t) ==
    /\ cache # None /\ WidgetsShown
    /\ t # exam_threshold
    /\ exam_threshold' = t
    /\ Render(main(Get(cache), exam_counts, FALSE, t, selected_datasets))
    /\ UNCHANGED <<files, cache, selected_datasets>>

InSelection(o) == \E i \in 1..Len(selected_datasets) : selected_datasets[i] = o

\* The user adds an option to the multiselect.
SelectDataset(o) ==
    /\ cache # None /\ WidgetsShown
    /\ ~InSelection(o)
    /\ Len(selected_datasets) < MaxSelected
    /\ selected_datasets' = Append(selected_datasets, o)
    /\ Render(main(Get(cache), exam_counts, FALSE, exam_threshold, selected_datasets'))
    /\ UNCHANGED <<files, cache, exam_threshold>>

\* The user removes an option from the multiselect.
DeselectDataset(o) ==
    /\ cache # None /\ WidgetsShown
    /\ InSelection(o)
    /\ LET differs(x) == x # o
       IN  selected_datasets' = SelectSeq(selected_datasets, differs)
    /\ Render(main(Get(cache), exam_counts, FALSE, exam_threshold, selected_datasets'))
    /\ UNCHANGED <<files, cache, exam_threshold>>

\* Variant of ClickCalculate that filters the cached exam counts in place.
ClickCalculateInPlace ==
    /\ cache # None /\ WidgetsShown
    /\ LET run == main(Get(cache), exam_counts, TRUE, exam_threshold, selected_datasets)
           n == IF exam_threshold = "GE3" THEN Threshold3
                ELSE IF exam_threshold = "GE10" THEN Threshold10 ELSE 0
       IN  /\ exam_counts' = Some(FilterGE(Get(run.exam_counts), "exam_count", n))
           /\ stats' = run.stats
           /\ report' = run.report
    /\ UNCHANGED <<files, cache, exam_threshold, selected_datasets>>

\* The user presses the button.
ClickCalculate ==
    /\ cache # None /\ WidgetsShown
    /\ Render(main(Get(cache), exam_counts, TRUE, exam_threshold, selected_datasets))
    /\ UNCHANGED <<files, cache, exam_threshold, selected_datasets>>

-----------------------------------------------------------------------------
(* Input files *)

E(p, v) == [id_patientarchive |-> p, id_patient |-> 100 * p + v, year |-> 2015 + v]
S(p, y) == [id_patientarchive |-> p, year |-> y]
P(p) == [id_patientarchive |-> p]

\* the exam rows of patient p, one per entry of visits
ExamRows(p, visits) == [i \in 1..Len(visits) |-> E(p, visits[i])]

UpTo(n) == [i \in 1..n |-> i]

\* Patients 1..4.  Three exam files: three patients with 3, 1 and 10 visits;
\* repeated visit ids (12 rows of 10 visits, 11 rows of 9 visits, 3 rows of 2
\* visits, 4 rows of 3 visits); and a file with no rows.
BasicFiles ==
    { ExamRows(1, UpTo(3)) \o ExamRows(2, UpTo(1)) \o ExamRows(3, UpTo(10)),
      ExamRows(1, UpTo(10) \o <<3, 7>>) \o ExamRows(3, <<1, 2, 2>>)
          \o ExamRows(2, UpTo(9) \o <<9, 1>>) \o ExamRows(4, <<1, 2, 3, 1>>),
      <<>> }

XueFiles ==
    { <<S(1, 2018), S(1, 2020), S(3, 2019), S(3, 2019)>>,
      <<S(2, 2018), S(4, 2018), S(2, 2017)>> }

BaimoFiles ==
    { <<S(1, 2019), S(2, 2016), S(3, 2022), S(1, 2019)>>,
      <<S(4, 2018), S(3, 2018), S(3, 2019)>> }

WgsFiles == { <<P(1), P(4)>>, <<P(3), P(1), P(3), P(2)>> }

ClinicalFiles == { <<P(1), P(2)>>, <<P(4), P(4), P(1), P(3)>> }

ScenarioFiles ==
    [basic : BasicFiles, xue_sample : XueFiles, baimo_sample : BaimoFiles,
     wgs : WgsFiles, clinical_data : ClinicalFiles]

\* Enumerated tables: every table of at most MaxRows rows over small domains.
IDs == {1, 2}
VisitIDs == {1, 2, 3}
Years == {2018, 2019, 2020}

SeqsUpTo(R, n) == UNION {[1..k -> R] : k \in 0..n}

ExamTables == SeqsUpTo([id_patientarchive : IDs, id_patient : VisitIDs, year : {2019}], MaxRows)
SampleTables == SeqsUpTo([id_patientarchive : IDs, year : Years], MaxRows)
IdTables == SeqsUpTo([id_patientarchive : IDs], MaxRows)

DefaultFiles ==
    [basic |-> ExamRows(1, UpTo(10) \o <<3, 7>>) \o ExamRows(2, <<1, 2, 3, 1>>),
     xue_sample |-> <<S(1, 2018), S(2, 2019)>>,
     baimo_sample |-> <<S(2, 2018), S(1, 2020)>>,
     wgs |-> <<P(1)>>,
     clinical_data |-> <<P(2), P(2)>>]

\* the default files with one file replaced by an enumerated table
TableFiles ==
    {[DefaultFiles EXCEPT !.basic = t] : t \in ExamTables}
    \cup {[DefaultFiles EXCEPT !.xue_sample = t] : t \in SampleTables}
    \cup {[DefaultFiles EXCEPT !.baimo_sample = t] : t \in SampleTables}
    \cup {[DefaultFiles EXCEPT !.wgs = t] : t \in IdTables}
    \cup {[DefaultFiles EXCEPT !.clinical_data = t] : t \in IdTables}

-----------------------------------------------------------------------------
(* Specifications *)

InitWith(F) ==
    /\ files \in F
    /\ cache = None
    /\ exam_counts = None
    /\ exam_threshold = "ALL"
    /\ selected_datasets = <<>>
    /\ stats = None
    /\ report = Blank

Failures == 0..Len(FileNames)

Init == InitWith(ScenarioFiles)

Next ==
    \/ \E failing \in Failures : FirstRun(failing)
    \/ Rerun
    \/ \E t \in Thresholds : ChangeThreshold(t)
    \/ \E o \in Options : SelectDataset(o)
    \/ \E o \in Options : DeselectDataset(o)
    \/ ClickCalculate

\* The session: the scenario files, every widget interaction.
Spec == Init /\ [][Next]_vars

\* a selector outside the six options of the multiselect
UnknownSelector == "unknown"

EngineFiles ==
    {f \in ScenarioFiles : f.xue_sample = <<S(1, 2018), S(1, 2020), S(3, 2019), S(3, 2019)>>
                           /\ f.baimo_sample = <<S(4, 2018), S(3, 2018), S(3, 2019)>>
                           /\ f.wgs = <<P(1), P(4)>>}

InitEngine == InitWith(EngineFiles)

NextEngine ==
    \/ \E failing \in Failures : FirstRun(failing)
    \/ Rerun
    \/ \E t \in Thresholds : ChangeThreshold(t)
    \/ \E o \in Options \cup {UnknownSelector} : SelectDataset(o)
    \/ \E o \in Options \cup {UnknownSelector} : DeselectDataset(o)
    \/ ClickCalculate

\* The query reached by a caller that is not held to the multiselect's options.
SpecEngine == InitEngine /\ [][NextEngine]_vars

InitTables == InitWith(TableFiles)

NextTables ==
    \/ \E failing \in Failures : FirstRun(failing)
    \/ Rerun

\* The data pipeline on every enumerated table: load, exam counts, summary.
SpecTables == InitTables /\ [][NextTables]_vars

-----------------------------------------------------------------------------
(* Reference definitions, stated on the files with sets *)

IdsOf(t) == {t[i].id_patientarchive : i \in DOMAIN t}

RowsOf(t, p) == {i \in DOMAIN t : t[i].id_patientarchive = p}

\* the distinct visit ids of patient p in the exam file
VisitsOf(p) == {files.basic[i].id_patient : i \in RowsOf(files.basic, p)}

AtLeast(n) == {p \in IdsOf(files.basic) : Cardinality(VisitsOf(p)) >= n}

Since(t) == {t[i].id_patientarchive : i \in {j \in DOMAIN t : t[j].year >= YearCut}}

Base(thr) ==
    CASE thr = "ALL" -> IdsOf(files.basic)
      [] thr = "GE3" -> AtLeast(Threshold3)
      [] thr = "GE10" -> AtLeast(Threshold10)

Members(n) ==
    CASE n = "plasma" -> IdsOf(files.xue_sample)
      [] n = "plasma_2019" -> Since(files.xue_sample)
      [] n = "buffy_coat" -> IdsOf(files.baimo_sample)
      [] n = "buffy_coat_2019" -> Since(files.baimo_sample)
      [] n = "wgs" -> IdsOf(files.wgs)
      [] n = "clinical" -> IdsOf(files.clinical_data)

\* the patients of the base population that are members of every selected dataset
Expected(thr, sel) == {p \in Base(thr) : \A i \in DOMAIN sel : p \in Members(sel[i])}

LoadedOk == cache # None /\ Get(cache).errors = 0
LoadFailed == cache # None /\ Get(cache).errors > 0
HasResult == report.info # None
Count == Get(report.info)

\* the orderings of a sequence without repeats
Orderings(sel) ==
    {q \in [DOMAIN sel -> set(sel)] : \A i, j \in DOMAIN sel : i # j => q[i] # q[j]}

-----------------------------------------------------------------------------
(* Properties *)

\* C1: pressing the button with a query other than (ALL, nothing selected)
\* displays the number of patients of the base population of the threshold
\* that occur in every selected dataset; with nothing selected and a threshold
\* other than ALL that is the size of the base population.
QueryCountIsIntersection ==
    [][ClickCalculate /\ ~(exam_threshold = "ALL" /\ selected_datasets = <<>>)
        => /\ report'.info = Some(Cardinality(Expected(exam_threshold, selected_datasets)))
           /\ selected_datasets = <<>>
                => report'.info = Some(Cardinality(Base(exam_threshold)))]_vars

\* the spec's scenario: visits 3, 1 and 10, plasma = {1, 3}, threshold GE3 gives 2
QueryCountWitness ==
    /\ HasResult /\ Count = 2
    /\ exam_threshold = "GE3" /\ selected_datasets = <<"plasma">>
    /\ Len(files.basic) = 14
    /\ IdsOf(files.xue_sample) = {1, 3}

\* C2: pressing the button with threshold ALL and nothing selected displays
\* the warning only: no count and no condition description.
UsageGuard ==
    [][ClickCalculate /\ exam_threshold = "ALL" /\ selected_datasets = <<>>
        => report' = [Blank EXCEPT !.warning = TRUE]]_vars

UsageGuardWitness ==
    /\ report.warning /\ report.info = None /\ report.success = None
    /\ exam_threshold = "ALL" /\ selected_datasets = <<>>
    /\ Len(files.basic) > 0

\* C3: the exam counts have exactly one row per patient of the exam file, the
\* count of a patient is the number of distinct visit ids of the patient's rows,
\* it is at least 1, and repeating a row of the file does not change the counts.
ExamCountsAreDistinctVisits ==
    LoadedOk =>
        /\ exam_counts # None
        /\ LET ec == Get(exam_counts)
           IN  /\ IdsOf(ec) = IdsOf(files.basic)
               /\ Len(ec) = Cardinality(IdsOf(files.basic))
               /\ \A i \in DOMAIN ec :
                     /\ ec[i].exam_count = Cardinality(VisitsOf(ec[i].id_patientarchive))
                     /\ ec[i].exam_count >= 1
               /\ \A j \in DOMAIN files.basic :
                     get_exam_counts(Some(Append(files.basic, files.basic[j]))) = exam_counts

\* a patient whose rows repeat a visit id: fewer distinct visits than rows
ExamCountsWitness ==
    /\ LoadedOk /\ exam_counts # None
    /\ \E i \in DOMAIN Get(exam_counts) :
          LET r == Get(exam_counts)[i]
          IN  /\ r.exam_count >= 2
              /\ r.exam_count < Cardinality(RowsOf(files.basic, r.id_patientarchive))

\* C4: the count a query displays is the count of the same query with the
\* selected datasets in any other order.
CountIgnoresSelectionOrder ==
    (LoadedOk /\ HasResult) =>
        \A q \in Orderings(selected_datasets) :
            calculate(Get(cache).ret, Get(exam_counts), exam_threshold, q).info = report.info

\* two selected datasets that cut the base population differently
SelectionOrderWitness ==
    /\ LoadedOk /\ HasResult /\ Len(selected_datasets) >= 2
    /\ Base(exam_threshold) \cap Members(selected_datasets[1])
         # Base(exam_threshold) \cap Members(selected_datasets[2])
    /\ Count >= 1

WgsAndClinicalSelected ==
    /\ HasResult /\ exam_threshold = "ALL"
    /\ set(selected_datasets) = {"wgs", "clinical"}

\* C5 as stated: with threshold ALL and wgs and clinical selected, the count is
\* the number of patients that occur in both the wgs and the clinical file.
CountIsWgsAndClinicalOnly ==
    WgsAndClinicalSelected =>
        Count = Cardinality(IdsOf(files.wgs) \cap IdsOf(files.clinical_data))

\* C5 (amended): with threshold ALL and wgs and clinical selected, the count is
\* the number of patients of the exam file that occur in both the wgs and the
\* clinical file.
CountIsExamWgsAndClinical ==
    WgsAndClinicalSelected =>
        Count = Cardinality(IdsOf(files.basic) \cap IdsOf(files.wgs)
                                \cap IdsOf(files.clinical_data))

\* the spec's scenario: wgs = {1, 4}, clinical = {1, 2}, exam = {1, 2, 3}: count 1
WgsAndClinicalWitness ==
    /\ WgsAndClinicalSelected /\ Count = 1
    /\ IdsOf(files.wgs) = {1, 4} /\ IdsOf(files.clinical_data) = {1, 2}
    /\ IdsOf(files.basic) = {1, 2, 3}

\* C6: when a read of load_data fails, every run displays exactly one load
\* error and nothing else: no exam counts are derived, no summary is drawn, no
\* query message is written.
LoadFailureStopsTheRun ==
    LoadFailed =>
        /\ report = [Blank EXCEPT !.errors = 1]
        /\ exam_counts = None
        /\ stats = None

\* a failed load of files whose exam file has rows
LoadFailureWitness ==
    /\ LoadFailed /\ report.errors = 1
    /\ Len(files.basic) > 0 /\ Len(files.wgs) > 0

\* C7: pressing the button with a selector outside the six options raises an
\* exception and writes no count and no condition description.
UnknownSelectorFails ==
    [][ClickCalculate /\ InSelection(UnknownSelector)
        => report' = [Blank EXCEPT !.exception = TRUE]]_vars

\* the unknown selector next to a known one, after the button
UnknownSelectorWitness ==
    /\ report.exception /\ InSelection(UnknownSelector) /\ InSelection("clinical")
    /\ report.info = None

Occurrences(t, r) == Cardinality({i \in DOMAIN t : t[i] = r})

IsFrom2019(d, parent) ==
    /\ \A i \in DOMAIN d : d[i].year >= YearCut
    /\ \A i \in DOMAIN parent :
          parent[i].year >= YearCut => Occurrences(d, parent[i]) = Occurrences(parent, parent[i])
    /\ Len(d) = Cardinality({i \in DOMAIN parent : parent[i].year >= YearCut})
    /\ IdsOf(d) \subseteq IdsOf(parent)

\* C8: the 2019+ plasma and buffy-coat tables hold exactly the rows of their
\* parent with year >= 2019, their patients are patients of the parent, and
\* their summary count is at most the parent's.
From2019IsSubset ==
    LoadedOk =>
        /\ IsFrom2019(Get(Get(cache).ret.xue_sample_2019), files.xue_sample)
        /\ IsFrom2019(Get(Get(cache).ret.baimo_sample_2019), files.baimo_sample)
        /\ stats # None
        /\ Get(stats)[5][2] <= Get(stats)[4][2]
        /\ Get(stats)[7][2] <= Get(stats)[6][2]

\* a plasma file with a row of 2019, and a patient sampled only before 2019
From2019Witness ==
    /\ LoadedOk /\ stats # None
    /\ \E i \in DOMAIN files.xue_sample : files.xue_sample[i].year = YearCut
    /\ 0 < Get(stats)[5][2] /\ Get(stats)[5][2] < Get(stats)[4][2]

\* what the query answers on freshly loaded files
Fresh(thr, sel) ==
    LET ld == load_data(files, NoFailure)
    IN  calculate(ld.ret, Get(get_exam_counts(ld.ret.basic)), thr, sel)

\* C9: once the files are loaded no run changes the files, the cached tables
\* or the cached exam counts, and every count displayed is the count of the
\* same query on freshly loaded files.
RunsLeaveDataUnchanged ==
    [][LoadedOk =>
        /\ files' = files
        /\ cache' = cache
        /\ exam_counts' = exam_counts
        /\ report'.info # None
             => report' = Fresh(exam_threshold', selected_datasets')]_vars

\* a count displayed for a thresholded query with a dataset selected
UnchangedWitness ==
    /\ LoadedOk /\ HasResult /\ Count >= 1
    /\ exam_threshold = "GE10" /\ Len(selected_datasets) >= 1
    /\ cache = Some(load_data(files, NoFailure))

Labels ==
    <<"exam_total", "exam_ge3", "exam_ge10", "plasma", "plasma_2019", "buffy_coat",
      "buffy_coat_2019", "wgs", "clinical">>

Baseline ==
    <<Cardinality(IdsOf(files.basic)),
      Cardinality(AtLeast(Threshold3)),
      Cardinality(AtLeast(Threshold10)),
      Cardinality(IdsOf(files.xue_sample)),
      Cardinality(Since(files.xue_sample)),
      Cardinality(IdsOf(files.baimo_sample)),
      Cardinality(Since(files.baimo_sample)),
      Cardinality(IdsOf(files.wgs)),
      Cardinality(IdsOf(files.clinical_data))>>

\* C10: every run on loaded files draws the nine categories in the fixed
\* order, each with the number of distinct patients of its table (for the exam
\* thresholds, of the patients whose exam count meets the threshold).
SummaryIsDistinctCounts ==
    LoadedOk =>
        /\ stats # None
        /\ Len(Get(stats)) = Len(Labels)
        /\ \A k \in DOMAIN Labels : Get(stats)[k] = <<Labels[k], Baseline[k]>>

\* a membership file that repeats a patient, and a patient with 10 visits
SummaryWitness ==
    /\ LoadedOk /\ stats # None
    /\ Get(stats)[8][2] = 2 /\ Len(files.wgs) = 3
    /\ Get(stats)[3][2] = 1 /\ Get(stats)[2][2] = 2

====
